---- MODULE Spec2Model ----
(***************************************************************************)
(* A model of PPTGenerator (src/ppt_generator.py): the builder that        *)
(* accumulates slides in a python-pptx Presentation, keeps two theme       *)
(* colours and writes the deck with save.                                  *)
(*                                                                         *)
(* A slide is a record of what the builder put on it.  A text frame is the *)
(* sequence of its paragraphs' texts; an optional value is <<>> (absent)   *)
(* or <<v>>.  The file system is the set of files that exist before the    *)
(* run (ExistingFiles), the directories nothing can be written to          *)
(* (ReadOnlyDir), the paths it refuses to write (unwritable) and the files *)
(* the run has written (files).                                            *)
(*                                                                         *)
(* The scripts that drive a builder (create_simple_presentation,           *)
(* create_sample_devops_presentation, create_comprehensive_demo,           *)
(* run_all_examples, create_custom_presentation) run on the same builder   *)
(* operations; BankAccount and Library of the OOP lesson                   *)
(* (src/Python-Mastery/05-OOP/classes_and_objects.py) have their own state.*)
(*                                                                         *)
(* Layouts are those of python-pptx's default template, which every        *)
(* template file of the model shares; a template file may hold slides.     *)
(***************************************************************************)
EXTENDS Integers, Sequences, FiniteSets, TLC

VARIABLES
    constructed,     \* TRUE when PPTGenerator.__init__ returned an object
    template_path,   \* the argument of __init__: <<>> is None, <<p>> a path
    slides,          \* self.presentation.slides, in order
    primary_color,   \* self.primary_color
    accent_color,    \* self.accent_color
    files,           \* the files written so far: absolute path -> saved deck
    result,          \* the last call: what it was given and how it ended
    ok_appends,      \* history: the add_* calls that returned normally
    created,         \* history: the slides those calls returned, in call order
    peer,            \* a second PPTGenerator object of the same process
    unwritable,      \* the paths the file system refuses to write
    pc,              \* where a script (a function that drives a builder) is
    examples,        \* the list run_all_examples builds and returns
    balance,         \* BankAccount.balance
    transaction_history,   \* BankAccount.transaction_history
    books            \* Library.books, each with title and is_available

vars == <<constructed, template_path, slides, primary_color, accent_color,
          files, result, ok_appends, created, peer,
          unwritable, pc, examples, balance, transaction_history, books>>

\* the state of one PPTGenerator object and of the files it wrote
builder_vars == <<constructed, template_path, slides, primary_color, accent_color,
                  files, ok_appends, created, peer>>

\* the state of the scripts and of the classes of the OOP lesson
script_vars == <<unwritable, pc, examples>>
lesson_vars == <<balance, transaction_history, books>>

----------------------------------------------------------------------------
(* Bounds of the model *)

MaxSlides == 2          \* add_* calls per run of Spec
MaxDetailSlides == 1    \* add_* calls per run of SpecDetail
MaxSaveSlides == 1      \* add_* calls per run of SpecSave
MaxThemeSlides == 1     \* add_* calls per run of SpecTheme
MaxItems == 2           \* longest item list given to add_content_slide
MaxPairSlides == 1      \* add_* calls per object per run of SpecPair
MaxCustomSlides == 1    \* slides added from the menu of create_custom_presentation
MaxBalance == 3         \* largest balance of a BankAccount
MaxTransactions == 3    \* accepted calls on a BankAccount
MaxBooks == 2           \* books added to a Library

----------------------------------------------------------------------------
(* Strings and paths *)

StartsWith(s, prefix) ==
    Len(s) >= Len(prefix) /\ SubSeq(s, 1, Len(prefix)) = prefix

EndsWith(s, suffix) ==
    Len(s) >= Len(suffix) /\ SubSeq(s, Len(s) - Len(suffix) + 1, Len(s)) = suffix

CWD == "/work"

ReadOnlyDir == "/ro/"

\* files that exist before the run; the rest of the paths do not exist
ExistingFiles == {"deck.pptx", "logo.png", "notes.txt"}

\* files python-pptx can open as a presentation, with the slides they hold
PresentationFiles == {"deck.pptx"}

\* files PIL can read as an image
ImageFiles == {"logo.png"}

exists(path) == path \in ExistingFiles

abspath(path) == IF StartsWith(path, "/") THEN path ELSE CWD \o "/" \o path

\* whether presentation.save(full_path) can create the file
CanWrite(full_path) ==
    ~StartsWith(full_path, ReadOnlyDir) /\ full_path \notin unwritable

----------------------------------------------------------------------------
(* Colours *)

DefaultPrimary == <<31, 73, 125>>
DefaultAccent == <<79, 129, 189>>
White == <<255, 255, 255>>

\* faulty variant: the upper limit is off by one
RGBColorOK_loose(t) == Len(t) = 3 /\ \A i \in 1..3 : t[i] >= 0 /\ t[i] <= 256

\* RGBColor(*t) raises unless t holds three integers in 0..255
RGBColorOK(t) == Len(t) = 3 /\ \A i \in 1..3 : t[i] >= 0 /\ t[i] <= 255

----------------------------------------------------------------------------
(* Slides *)

\* placeholders a new slide of the layout carries (default template)
SlidePlaceholders(layout) ==
    CASE layout = 0 -> 2      \* Title Slide: title, subtitle
      [] layout = 1 -> 2      \* Title and Content: title, body
      [] layout = 2 -> 2      \* Section Header: title, text
      [] layout = 3 -> 3      \* Two Content: title, left, right
      [] layout = 5 -> 1      \* Title Only
      [] layout = 6 -> 0      \* Blank
      [] OTHER -> 0

\* slides.add_slide(layout): the slide before anything is bound to it
NewSlide(kind, layout) ==
    [kind |-> kind, layout |-> layout,
     title |-> "", title_color |-> <<>>,
     sub |-> "", sub_color |-> <<>>,
     body |-> IF layout # 0 /\ SlidePlaceholders(layout) > 1 THEN <<"">> ELSE <<>>,
     right |-> IF SlidePlaceholders(layout) > 2 THEN <<"">> ELSE <<>>,
     picture |-> <<>>, caption |-> <<>>, chart |-> <<>>, background |-> <<>>]

\* the slides Presentation(template_path) opens with
TemplateSlides(path) ==
    IF path = "deck.pptx"
    THEN << [NewSlide("template", 0) EXCEPT !.title = "Old 1"],
            [NewSlide("template", 1) EXCEPT !.title = "Old 2"] >>
    ELSE << >>

\* the slides the builder holds right after construction
InitialSlides(tp) ==
    IF tp # <<>> /\ tp[1] # "" /\ exists(tp[1]) THEN TemplateSlides(tp[1]) ELSE << >>

\* faulty variant: the number is the 0-based index
Paragraphs_zero_based(content, layout_type) ==
    IF Len(content) = 0
    THEN <<"">>
    ELSE [k \in 1..Len(content) |->
            IF layout_type = "numbered"
            THEN ToString(k - 1) \o ". " \o content[k]
            ELSE content[k]]

\* text_frame.clear(), then one paragraph per item: the first item goes to
\* paragraphs[0], each later one to add_paragraph()
Paragraphs(content, layout_type) ==
    IF Len(content) = 0
    THEN <<"">>
    ELSE [k \in 1..Len(content) |->
            LET i == k - 1
                item == content[k]
            IN  IF layout_type = "numbered"
                THEN ToString(i + 1) \o ". " \o item
                ELSE item]

----------------------------------------------------------------------------
(* The record of a call *)

Call(op) ==
    [op |-> op, status |-> "ok", path |-> "", full_path |-> "",
     items |-> <<>>, layout_type |-> "", colors |-> <<>>, data |-> <<>>,
     chart_type |-> "", count |-> 0, writes |-> 0,
     probed |-> {}, read |-> {}]

AddedSlides == Len(slides) - Len(InitialSlides(template_path))

\* faulty variant: the new slide is put in front of the deck
Returned_front(call, slide) ==
    /\ slides' = <<slide>> \o slides
    /\ result' = call
    /\ ok_appends' = ok_appends + 1
    /\ created' = Append(created, slide)
    /\ UNCHANGED <<constructed, template_path, primary_color, accent_color, files,
                   peer>>

\* an add_* call that returned the slide
Returned(call, slide) ==
    /\ slides' = Append(slides, slide)
    /\ result' = call
    /\ ok_appends' = ok_appends + 1
    /\ created' = Append(created, slide)
    /\ UNCHANGED <<constructed, template_path, primary_color, accent_color, files,
                   peer>>

\* an add_* call that raised after slides.add_slide had run
Raised(call, error, slide) ==
    /\ slides' = Append(slides, slide)
    /\ result' = [call EXCEPT !.status = error]
    /\ UNCHANGED <<constructed, template_path, primary_color, accent_color,
                   files, ok_appends, created, peer>>

----------------------------------------------------------------------------
(* PPTGenerator.__init__ *)

\* the object PPTGenerator() builds: every attribute is the object's own
FreshPeer ==
    [constructed |-> TRUE, template_path |-> << >>, slides |-> << >>,
     primary_color |-> DefaultPrimary, accent_color |-> DefaultAccent,
     ok_appends |-> 0, created |-> << >>]

\* faulty variant: a template path that does not exist makes construction fail
PPTGenerator_init_strict(tp) ==
    LET given == tp # <<>> /\ tp[1] # ""
    IN  /\ template_path = tp
        /\ constructed = (given => tp[1] \in PresentationFiles)
        /\ slides = (IF constructed THEN InitialSlides(tp) ELSE << >>)
        /\ primary_color = DefaultPrimary
        /\ accent_color = DefaultAccent
        /\ files = << >>
        /\ ok_appends = 0
        /\ created = << >>
        /\ peer = FreshPeer
        /\ result = [Call("__init__") EXCEPT
                        !.status = IF constructed THEN "ok" ELSE "PackageNotFoundError",
                        !.path = IF tp = <<>> THEN "" ELSE tp[1],
                        !.probed = {},
                        !.read = IF given THEN {tp[1]} ELSE {}]

\* faulty variant: the two default colours are swapped
PPTGenerator_init_swapped(tp) ==
    LET opens == tp # <<>> /\ tp[1] # "" /\ exists(tp[1])
    IN  /\ template_path = tp
        /\ constructed = (opens => tp[1] \in PresentationFiles)
        /\ slides = (IF constructed THEN InitialSlides(tp) ELSE << >>)
        /\ primary_color = DefaultAccent
        /\ accent_color = DefaultPrimary
        /\ files = << >>
        /\ ok_appends = 0
        /\ created = << >>
        /\ peer = FreshPeer
        /\ result = [Call("__init__") EXCEPT
                        !.status = IF constructed THEN "ok" ELSE "PackageNotFoundError",
                        !.path = IF tp = <<>> THEN "" ELSE tp[1],
                        !.probed = IF tp # <<>> /\ tp[1] # "" THEN {tp[1]} ELSE {},
                        !.read = IF opens THEN {tp[1]} ELSE {}]

PPTGenerator_init(tp) ==
    LET opens == tp # <<>> /\ tp[1] # "" /\ exists(tp[1])
    IN  /\ template_path = tp
        /\ constructed = (opens => tp[1] \in PresentationFiles)
        /\ slides = (IF constructed THEN InitialSlides(tp) ELSE << >>)
        /\ primary_color = DefaultPrimary
        /\ accent_color = DefaultAccent
        /\ files = << >>
        /\ ok_appends = 0
        /\ created = << >>
        /\ peer = FreshPeer
        /\ result = [Call("__init__") EXCEPT
                        !.status = IF constructed THEN "ok" ELSE "PackageNotFoundError",
                        !.path = IF tp = <<>> THEN "" ELSE tp[1],
                        !.probed = IF tp # <<>> /\ tp[1] # "" THEN {tp[1]} ELSE {},
                        !.read = IF opens THEN {tp[1]} ELSE {}]

----------------------------------------------------------------------------
(* The add_* methods *)

\* faulty variant: the author line is added to a non-empty subtitle only
FullSubtitle_needs_subtitle(subtitle, author) ==
    IF author # "" /\ subtitle # ""
    THEN subtitle \o "\n\nPresented by: " \o author
    ELSE subtitle

FullSubtitle(subtitle, author) ==
    IF author # "" THEN subtitle \o "\n\nPresented by: " \o author ELSE subtitle

add_title_slide(title, subtitle, author) ==
    LET s0 == [NewSlide("title", 0) EXCEPT !.title = title,
                                           !.title_color = primary_color]
        full_subtitle == FullSubtitle(subtitle, author)
        s1 == IF SlidePlaceholders(0) > 1 /\ full_subtitle # ""
              THEN [s0 EXCEPT !.sub = full_subtitle, !.sub_color = accent_color]
              ELSE s0
    IN  /\ constructed
        /\ Returned([Call("add_title_slide") EXCEPT !.items = <<subtitle, author>>], s1)

\* faulty variant: the title takes the accent colour
add_content_slide_accent(title, content, layout_type) ==
    LET s0 == [NewSlide("content", 1) EXCEPT !.title = title,
                                             !.title_color = accent_color]
        s1 == IF SlidePlaceholders(1) > 1
              THEN [s0 EXCEPT !.body = Paragraphs(content, layout_type)]
              ELSE s0
    IN  /\ constructed
        /\ Returned([Call("add_content_slide") EXCEPT !.items = content,
                                                      !.layout_type = layout_type], s1)

add_content_slide(title, content, layout_type) ==
    LET s0 == [NewSlide("content", 1) EXCEPT !.title = title,
                                             !.title_color = primary_color]
        s1 == IF SlidePlaceholders(1) > 1
              THEN [s0 EXCEPT !.body = Paragraphs(content, layout_type)]
              ELSE s0
    IN  /\ constructed
        /\ Returned([Call("add_content_slide") EXCEPT !.items = content,
                                                      !.layout_type = layout_type], s1)

add_two_column_slide(title, left_content, right_content) ==
    LET s0 == [NewSlide("two_column", 3) EXCEPT !.title = title,
                                                !.title_color = primary_color]
        s1 == IF SlidePlaceholders(3) > 1
              THEN [s0 EXCEPT !.body = Paragraphs(left_content, "bullet")]
              ELSE s0
        s2 == IF SlidePlaceholders(3) > 2
              THEN [s1 EXCEPT !.right = Paragraphs(right_content, "bullet")]
              ELSE s1
    IN  /\ constructed
        /\ Returned([Call("add_two_column_slide") EXCEPT
                        !.items = <<left_content, right_content>>], s2)

\* faulty variant: a path that does not exist is an error
add_image_slide_strict(title, image_path, caption) ==
    LET call == [Call("add_image_slide") EXCEPT
                    !.path = image_path, !.items = <<caption>>,
                    !.read = {image_path}]
        s0 == [NewSlide("image", 6) EXCEPT !.title = title,
                                           !.title_color = primary_color]
        s1 == [s0 EXCEPT !.picture = <<image_path>>]
        s2 == IF caption # "" THEN [s1 EXCEPT !.caption = <<caption>>] ELSE s1
    IN  /\ constructed
        /\ IF image_path \in ImageFiles
           THEN Returned(call, s2)
           ELSE Raised(call, "FileNotFoundError", s0)

\* faulty variant: the path is stored and no file is looked at
add_image_slide_lazy(title, image_path, caption) ==
    LET call == [Call("add_image_slide") EXCEPT
                    !.path = image_path, !.items = <<caption>>]
        s0 == [NewSlide("image", 6) EXCEPT !.title = title,
                                           !.title_color = primary_color]
        s1 == [s0 EXCEPT !.picture = <<image_path>>]
        s2 == IF caption # "" THEN [s1 EXCEPT !.caption = <<caption>>] ELSE s1
    IN  /\ constructed
        /\ Returned(call, s2)

\* faulty variant: the caption is put on the slide without the picture
add_image_slide_captioned(title, image_path, caption) ==
    LET call == [Call("add_image_slide") EXCEPT
                    !.path = image_path, !.items = <<caption>>,
                    !.probed = {image_path},
                    !.read = IF exists(image_path) THEN {image_path} ELSE {}]
        s0 == [NewSlide("image", 6) EXCEPT !.title = title,
                                           !.title_color = primary_color]
        s1 == [s0 EXCEPT !.picture = <<image_path>>]
        cap(s) == IF caption # "" THEN [s EXCEPT !.caption = <<caption>>] ELSE s
    IN  /\ constructed
        /\ IF exists(image_path)
           THEN IF image_path \in ImageFiles
                THEN Returned(call, cap(s1))
                ELSE Raised(call, "UnidentifiedImageError", s0)
           ELSE Returned(call, cap(s0))

add_image_slide(title, image_path, caption) ==
    LET call == [Call("add_image_slide") EXCEPT
                    !.path = image_path, !.items = <<caption>>,
                    !.probed = {image_path},
                    !.read = IF exists(image_path) THEN {image_path} ELSE {}]
        s0 == [NewSlide("image", 6) EXCEPT !.title = title,
                                           !.title_color = primary_color]
        s1 == [s0 EXCEPT !.picture = <<image_path>>]
        s2 == IF caption # "" THEN [s1 EXCEPT !.caption = <<caption>>] ELSE s1
    IN  /\ constructed
        /\ IF exists(image_path)
           THEN IF image_path \in ImageFiles
                THEN Returned(call, s2)
                ELSE Raised(call, "UnidentifiedImageError", s0)
           ELSE Returned(call, s0)

\* chart_data.get(key, [])
Get(chart_data, key) ==
    IF key \in DOMAIN chart_data THEN chart_data[key] ELSE << >>

\* series["name"] and series["values"] are both there
SeriesOK(series) == "name" \in DOMAIN series /\ "values" \in DOMAIN series

\* chart_type_map.get(chart_type, XL_CHART_TYPE.COLUMN_CLUSTERED)
ChartType(chart_type) ==
    CASE chart_type = "column" -> "COLUMN_CLUSTERED"
      [] chart_type = "line" -> "LINE"
      [] chart_type = "pie" -> "PIE"
      [] OTHER -> "COLUMN_CLUSTERED"

\* whether the chart data is accepted: the series loop reads both keys of
\* every series, and nothing compares a series' length with the categories
ChartDataOK(chart_data) ==
    \A k \in 1..Len(Get(chart_data, "series")) : SeriesOK(Get(chart_data, "series")[k])

\* shapes.add_chart writes a pie chart from the first series of the data
\* (chart_data[0] in python-pptx's pie writer), so a pie chart of no series
\* raises IndexError; the column and line writers loop over the series
PieOfNothing(type, series) == type = "PIE" /\ series = << >>

add_chart_slide(title, chart_data, chart_type) ==
    LET call == [Call("add_chart_slide") EXCEPT !.data = chart_data,
                                                !.chart_type = chart_type]
        s0 == [NewSlide("chart", 5) EXCEPT !.title = title,
                                           !.title_color = primary_color]
        categories == Get(chart_data, "categories")
        series == Get(chart_data, "series")
        s1 == [s0 EXCEPT !.chart = << [type |-> ChartType(chart_type),
                                       categories |-> categories,
                                       series |-> series] >>]
    IN  /\ constructed
        /\ IF ~ChartDataOK(chart_data)
           THEN Raised(call, "KeyError", s0)
           ELSE IF PieOfNothing(ChartType(chart_type), series)
                THEN Raised(call, "IndexError", s0)
                ELSE Returned(call, s1)

\* faulty variant: the background colour is stored as given
add_section_slide_unchecked(section_title, background_color) ==
    LET call == [Call("add_section_slide") EXCEPT !.colors = background_color]
        s0 == [NewSlide("section", 2) EXCEPT !.title = section_title,
                                             !.title_color = White]
    IN  /\ constructed
        /\ IF background_color = <<>>
           THEN Returned(call, s0)
           ELSE Returned(call, [s0 EXCEPT !.background = background_color])

add_section_slide(section_title, background_color) ==
    LET call == [Call("add_section_slide") EXCEPT !.colors = background_color]
        s0 == [NewSlide("section", 2) EXCEPT !.title = section_title,
                                             !.title_color = White]
    IN  /\ constructed
        /\ IF background_color = <<>>
           THEN Returned(call, s0)
           ELSE IF RGBColorOK(background_color[1])
                THEN Returned(call, [s0 EXCEPT !.background = background_color])
                \* fill.solid() has run, the colour is not set
                ELSE Raised(call, "ValueError", [s0 EXCEPT !.background = << <<>> >>])

----------------------------------------------------------------------------
(* save, get_slide_count, set_theme_colors *)

\* faulty variant: '.pptx' is appended to every name
Normalize_always(filename) == filename \o ".pptx"

\* the name save writes: '.pptx' is appended unless it is there already
Normalize(filename) ==
    IF EndsWith(filename, ".pptx") THEN filename ELSE filename \o ".pptx"

\* faulty variant: a successful save hands the slides over and leaves none
save_consuming(filename) ==
    LET full_path == abspath(Normalize(filename))
        call == [Call("save") EXCEPT !.path = filename, !.full_path = full_path,
                                     !.writes = 1]
    IN  /\ constructed
        /\ IF CanWrite(full_path)
           THEN /\ files' = (full_path :> slides) @@ files
                /\ slides' = << >>
                /\ result' = call
           ELSE /\ files' = files
                /\ slides' = slides
                /\ result' = [call EXCEPT !.status = "OSError"]
        /\ UNCHANGED <<constructed, template_path, primary_color,
                       accent_color, ok_appends, created, peer>>

\* faulty variant: a save that fails drops the last slide
save_lossy(filename) ==
    LET full_path == abspath(Normalize(filename))
        call == [Call("save") EXCEPT !.path = filename, !.full_path = full_path,
                                     !.writes = 1]
    IN  /\ constructed
        /\ IF CanWrite(full_path)
           THEN /\ files' = (full_path :> slides) @@ files
                /\ slides' = slides
                /\ result' = call
           ELSE /\ files' = files
                /\ slides' = SubSeq(slides, 1, Len(slides) - 1)
                /\ result' = [call EXCEPT !.status = "OSError"]
        /\ UNCHANGED <<constructed, template_path, primary_color,
                       accent_color, ok_appends, created, peer>>

\* faulty variant: a successful save closes the builder
save_closing(filename) ==
    LET full_path == abspath(Normalize(filename))
        call == [Call("save") EXCEPT !.path = filename, !.full_path = full_path,
                                     !.writes = 1]
    IN  /\ constructed
        /\ IF CanWrite(full_path)
           THEN /\ files' = (full_path :> slides) @@ files
                /\ constructed' = FALSE
                /\ result' = call
           ELSE /\ files' = files
                /\ constructed' = constructed
                /\ result' = [call EXCEPT !.status = "OSError"]
        /\ UNCHANGED <<template_path, slides, primary_color,
                       accent_color, ok_appends, created, peer>>

save(filename) ==
    LET full_path == abspath(Normalize(filename))
        call == [Call("save") EXCEPT !.path = filename, !.full_path = full_path,
                                     !.writes = 1]
    IN  /\ constructed
        /\ IF CanWrite(full_path)
           THEN /\ files' = (full_path :> slides) @@ files
                /\ result' = call
           ELSE /\ files' = files
                /\ result' = [call EXCEPT !.status = "OSError"]
        /\ UNCHANGED <<constructed, template_path, slides, primary_color,
                       accent_color, ok_appends, created, peer>>

\* faulty variant: counting takes the last slide off the deck
get_slide_count_draining ==
    /\ constructed
    /\ result' = [Call("get_slide_count") EXCEPT !.count = Len(slides)]
    /\ slides' = SubSeq(slides, 1, Len(slides) - 1)
    /\ UNCHANGED <<constructed, template_path, primary_color,
                   accent_color, files, ok_appends, created, peer>>

get_slide_count ==
    /\ constructed
    /\ result' = [Call("get_slide_count") EXCEPT !.count = Len(slides)]
    /\ UNCHANGED <<constructed, template_path, slides, primary_color,
                   accent_color, files, ok_appends, created, peer>>

\* faulty variant: the slides already in the deck take the new primary colour
set_theme_colors_retro(primary, accent) ==
    LET call == [Call("set_theme_colors") EXCEPT !.colors = <<primary, accent>>]
    IN  /\ constructed
        /\ IF ~RGBColorOK(primary) \/ ~RGBColorOK(accent)
           THEN /\ result' = [call EXCEPT !.status = "ValueError"]
                /\ UNCHANGED <<primary_color, accent_color, slides>>
           ELSE /\ result' = call
                /\ primary_color' = primary
                /\ accent_color' = accent
                /\ slides' = [i \in 1..Len(slides) |->
                                [slides[i] EXCEPT !.title_color = primary]]
        /\ UNCHANGED <<constructed, template_path, files, ok_appends, created, peer>>

\* faulty variant: the colours are attributes of the class, shared by its objects
set_theme_colors_shared(primary, accent) ==
    LET call == [Call("set_theme_colors") EXCEPT !.colors = <<primary, accent>>]
    IN  /\ constructed
        /\ IF ~RGBColorOK(primary) \/ ~RGBColorOK(accent)
           THEN /\ result' = [call EXCEPT !.status = "ValueError"]
                /\ UNCHANGED <<primary_color, accent_color, peer>>
           ELSE /\ result' = call
                /\ primary_color' = primary
                /\ accent_color' = accent
                /\ peer' = [peer EXCEPT !.primary_color = primary,
                                        !.accent_color = accent]
        /\ UNCHANGED <<constructed, template_path, slides, files, ok_appends,
                       created>>

\* the two assignments run in order: the first colour is stored before the
\* second is looked at
set_theme_colors(primary, accent) ==
    LET call == [Call("set_theme_colors") EXCEPT !.colors = <<primary, accent>>]
    IN  /\ constructed
        /\ IF ~RGBColorOK(primary)
           THEN /\ result' = [call EXCEPT !.status = "ValueError"]
                /\ UNCHANGED <<primary_color, accent_color>>
           ELSE IF ~RGBColorOK(accent)
                THEN /\ result' = [call EXCEPT !.status = "ValueError"]
                     /\ primary_color' = primary
                     /\ UNCHANGED accent_color
                ELSE /\ result' = call
                     /\ primary_color' = primary
                     /\ accent_color' = accent
        /\ UNCHANGED <<constructed, template_path, slides, files, ok_appends, created, peer>>

----------------------------------------------------------------------------
(* Inputs *)

TemplateArgs == {<<>>, <<"missing.pptx">>, <<"deck.pptx">>, <<"notes.txt">>}

Red == <<255, 0, 0>>
TooBig == <<256, 0, 0>>
Negative == <<0, -1, 0>>

DataOK ==
    [categories |-> <<"Q1", "Q2">>,
     series |-> << [name |-> "s", values |-> <<1, 2>>] >>]

\* two categories, three values
DataMismatch ==
    [categories |-> <<"Q1", "Q2">>,
     series |-> << [name |-> "s", values |-> <<1, 2, 3>>] >>]

\* a series without "name"
DataNoName ==
    [categories |-> <<"Q1", "Q2">>,
     series |-> << [values |-> <<1, 2>>] >>]

\* a dataset with neither "categories" nor "series"
DataNoKeys == [label |-> "x"]

\* the item lists of at most n items over {"A", "B"}
ItemLists(n) == UNION {[1..k -> {"A", "B"}] : k \in 0..n}

Filenames == {"out", "out.pptx", "b.PPTX", "", "/abs/c.pptx", "/ro/x"}

----------------------------------------------------------------------------
(* Spec: every operation, on a few inputs of each kind *)

\* the position of a script: where it is (place, and the number of the call
\* that comes next), the lines the last prompts read or the path the last
\* save returned, and how many additions the menu took so far
At(place) == [at |-> place, step |-> 0, input |-> << >>, accepted |-> 0]

\* no PPTGenerator object is made yet and no file is written
NoBuilder ==
    /\ constructed = FALSE
    /\ template_path = << >>
    /\ slides = << >>
    /\ primary_color = DefaultPrimary
    /\ accent_color = DefaultAccent
    /\ files = << >>
    /\ ok_appends = 0
    /\ created = << >>
    /\ peer = FreshPeer

\* no script runs, every path can be written, and the lesson's objects are
\* not made
Idle ==
    /\ unwritable = {}
    /\ pc = At("idle")
    /\ examples = << >>
    /\ balance = 0
    /\ transaction_history = << >>
    /\ books = << >>

Init ==
    /\ \E tp \in {<<>>, <<"deck.pptx">>} : PPTGenerator_init(tp)
    /\ Idle

AddTitle ==
    /\ AddedSlides < MaxSlides
    /\ add_title_slide("T", "S", "A")
    /\ UNCHANGED <<script_vars, lesson_vars>>

AddContent ==
    /\ AddedSlides < MaxSlides
    /\ add_content_slide("T", <<"A", "B">>, "numbered")
    /\ UNCHANGED <<script_vars, lesson_vars>>

AddTwoColumn ==
    /\ AddedSlides < MaxSlides
    /\ add_two_column_slide("T", <<"L">>, <<"R1", "R2">>)
    /\ UNCHANGED <<script_vars, lesson_vars>>

AddImage ==
    /\ AddedSlides < MaxSlides
    /\ \E p \in {"missing.png", "logo.png", "notes.txt"} : add_image_slide("T", p, "cap")
    /\ UNCHANGED <<script_vars, lesson_vars>>

AddChart ==
    /\ AddedSlides < MaxSlides
    /\ \E d \in {DataOK, DataMismatch, DataNoName} : add_chart_slide("T", d, "column")
    /\ UNCHANGED <<script_vars, lesson_vars>>

AddSection ==
    /\ AddedSlides < MaxSlides
    /\ \E bg \in {<<>>, <<Red>>, <<TooBig>>} : add_section_slide("T", bg)
    /\ UNCHANGED <<script_vars, lesson_vars>>

Save ==
    /\ \E f \in {"out", "/ro/x"} : save(f)
    /\ UNCHANGED <<script_vars, lesson_vars>>

GetSlideCount ==
    /\ get_slide_count
    /\ UNCHANGED <<script_vars, lesson_vars>>

SetTheme ==
    /\ \E c \in {<<Red, Red>>, <<Red, TooBig>>} : set_theme_colors(c[1], c[2])
    /\ UNCHANGED <<script_vars, lesson_vars>>

Next ==
    \/ AddTitle
    \/ AddContent
    \/ AddTwoColumn
    \/ AddSection
    \/ AddChart
    \/ AddImage
    \/ Save
    \/ GetSlideCount
    \/ SetTheme

Spec == Init /\ [][Next]_vars

----------------------------------------------------------------------------
(* SpecDetail: construction with every template argument, and every add_*  *)
(* method on all its input shapes, under the default theme                 *)

DetailInit ==
    /\ \E tp \in TemplateArgs : PPTGenerator_init(tp)
    /\ Idle

DetailTitle ==
    /\ AddedSlides < MaxDetailSlides
    /\ \E subtitle \in {"", "S"}, author \in {"", "A"} :
          add_title_slide("T", subtitle, author)
    /\ UNCHANGED <<script_vars, lesson_vars>>

DetailContent ==
    /\ AddedSlides < MaxDetailSlides
    /\ \E content \in ItemLists(MaxItems), lt \in {"bullet", "numbered", "plain"} :
          add_content_slide("T", content, lt)
    /\ UNCHANGED <<script_vars, lesson_vars>>

DetailTwoColumn ==
    /\ AddedSlides < MaxDetailSlides
    /\ \E l \in {<<>>, <<"L">>}, r \in {<<>>, <<"R1", "R2">>} :
          add_two_column_slide("T", l, r)
    /\ UNCHANGED <<script_vars, lesson_vars>>

DetailImage ==
    /\ AddedSlides < MaxDetailSlides
    /\ \E p \in {"missing.png", "logo.png", "notes.txt"}, caption \in {"", "cap"} :
          add_image_slide("T", p, caption)
    /\ UNCHANGED <<script_vars, lesson_vars>>

DetailChart ==
    /\ AddedSlides < MaxDetailSlides
    /\ \E d \in {DataOK, DataMismatch, DataNoName, DataNoKeys},
          ct \in {"column", "line", "pie", "donut"} :
          add_chart_slide("T", d, ct)
    /\ UNCHANGED <<script_vars, lesson_vars>>

DetailSection ==
    /\ AddedSlides < MaxDetailSlides
    /\ \E bg \in {<<>>, <<Red>>, <<TooBig>>, <<Negative>>} : add_section_slide("T", bg)
    /\ UNCHANGED <<script_vars, lesson_vars>>

DetailNext ==
    \/ DetailTitle
    \/ DetailContent
    \/ DetailTwoColumn
    \/ DetailImage
    \/ DetailChart
    \/ DetailSection
    \/ GetSlideCount

SpecDetail == DetailInit /\ [][DetailNext]_vars

----------------------------------------------------------------------------
(* SpecTheme: set_theme_colors on every pair of colours, with the slides   *)
(* that take a colour                                                      *)

ThemeColors == {Red, White, TooBig, Negative}

ThemeSet ==
    /\ \E p \in ThemeColors, a \in ThemeColors : set_theme_colors(p, a)
    /\ UNCHANGED <<script_vars, lesson_vars>>

ThemeTitle ==
    /\ AddedSlides < MaxThemeSlides
    /\ add_title_slide("T", "S", "A")
    /\ UNCHANGED <<script_vars, lesson_vars>>

ThemeSection ==
    /\ AddedSlides < MaxThemeSlides
    /\ \E bg \in {<<>>} \cup {<<c>> : c \in ThemeColors} : add_section_slide("T", bg)
    /\ UNCHANGED <<script_vars, lesson_vars>>

ThemeNext ==
    \/ ThemeSet
    \/ ThemeTitle
    \/ ThemeSection
    \/ GetSlideCount

SpecTheme == Init /\ [][ThemeNext]_vars

----------------------------------------------------------------------------
(* SpecSave: save under every kind of file name, between a few appends     *)

SaveAs ==
    /\ \E f \in Filenames : save(f)
    /\ UNCHANGED <<script_vars, lesson_vars>>

SaveImage ==
    /\ AddedSlides < MaxSaveSlides
    /\ \E p \in {"missing.png", "logo.png"} : add_image_slide("T", p, "cap")
    /\ UNCHANGED <<script_vars, lesson_vars>>

SaveContent ==
    /\ AddedSlides < MaxSaveSlides
    /\ add_content_slide("T", <<"A">>, "bullet")
    /\ UNCHANGED <<script_vars, lesson_vars>>

SaveTheme ==
    /\ set_theme_colors(Red, Red)
    /\ UNCHANGED <<script_vars, lesson_vars>>

SaveNext ==
    \/ SaveAs
    \/ SaveImage
    \/ SaveContent
    \/ SaveTheme
    \/ GetSlideCount

SpecSave == Init /\ [][SaveNext]_vars

----------------------------------------------------------------------------
(* SpecPair: two PPTGenerator objects in one process.  The operations act  *)
(* on the object at hand (self); Switch makes the other object self.       *)

Switch ==
    /\ peer' = [constructed |-> constructed, template_path |-> template_path,
                slides |-> slides, primary_color |-> primary_color,
                accent_color |-> accent_color, ok_appends |-> ok_appends,
                created |-> created]
    /\ constructed' = peer.constructed
    /\ template_path' = peer.template_path
    /\ slides' = peer.slides
    /\ primary_color' = peer.primary_color
    /\ accent_color' = peer.accent_color
    /\ ok_appends' = peer.ok_appends
    /\ created' = peer.created
    /\ result' = Call("switch")
    /\ UNCHANGED files
    /\ UNCHANGED <<script_vars, lesson_vars>>

PairTitle ==
    /\ AddedSlides < MaxPairSlides
    /\ add_title_slide("T", "S", "A")
    /\ UNCHANGED <<script_vars, lesson_vars>>

PairSection ==
    /\ AddedSlides < MaxPairSlides
    /\ \E bg \in {<<>>, <<TooBig>>} : add_section_slide("T", bg)
    /\ UNCHANGED <<script_vars, lesson_vars>>

PairTheme ==
    /\ \E c \in {<<Red, Red>>, <<White, TooBig>>} : set_theme_colors(c[1], c[2])
    /\ UNCHANGED <<script_vars, lesson_vars>>

PairSave ==
    /\ save("out")
    /\ UNCHANGED <<script_vars, lesson_vars>>

PairNext ==
    \/ Switch
    \/ PairTitle
    \/ PairSection
    \/ PairTheme
    \/ PairSave
    \/ GetSlideCount

SpecPair == Init /\ [][PairNext]_vars

----------------------------------------------------------------------------
(* What the scripts read: typed lines and the clock *)

RECURSIVE lstrip(_)
lstrip(s) ==
    IF s # "" /\ SubSeq(s, 1, 1) \in {" ", "\t"}
    THEN lstrip(SubSeq(s, 2, Len(s)))
    ELSE s

RECURSIVE rstrip(_)
rstrip(s) ==
    IF s # "" /\ SubSeq(s, Len(s), Len(s)) \in {" ", "\t"}
    THEN rstrip(SubSeq(s, 1, Len(s) - 1))
    ELSE s

\* str.strip()
strip(s) == rstrip(lstrip(s))

\* two digits of a number below 100
Pad2(n) == IF n < 10 THEN "0" \o ToString(n) ELSE ToString(n)

\* datetime.strftime('%Y%m%d_%H%M%S'), for a year of four digits
strftime(now) ==
    ToString(now.Y) \o Pad2(now.m) \o Pad2(now.d) \o "_"
        \o Pad2(now.H) \o Pad2(now.M) \o Pad2(now.S)

\* the times datetime.now() returns in a run
Clock ==
    {[Y |-> 2024, m |-> 1, d |-> 5, H |-> 9, M |-> 3, S |-> 7],
     [Y |-> 2025, m |-> 12, d |-> 31, H |-> 23, M |-> 59, S |-> 59]}

----------------------------------------------------------------------------
(* create_custom_presentation: the title slide, then the menu until a save *)
(* succeeded                                                               *)

\* the inner loop: points are read, stripped, until a blank line
RECURSIVE ReadPoints(_)
ReadPoints(lines) ==
    IF lines = << >> \/ strip(Head(lines)) = ""
    THEN << >>
    ELSE <<strip(Head(lines))>> \o ReadPoints(Tail(lines))

\* a turn of the menu that calls nothing of the builder
NoCall(typed) ==
    /\ result' = [Call("input") EXCEPT !.items = typed]
    /\ pc' = [pc EXCEPT !.input = typed]
    /\ UNCHANGED builder_vars

\* a turn of the menu that made an add_* call
Added(typed) == pc' = [pc EXCEPT !.input = typed, !.accepted = @ + 1]

custom_title(title, subtitle, author) ==
    /\ pc.at = "title"
    /\ add_title_slide(strip(title), strip(subtitle), strip(author))
    /\ pc' = [pc EXCEPT !.at = "menu", !.input = <<title, subtitle, author>>]

custom_content(slide_choice, slide_title, lines) ==
    /\ pc.at = "menu" /\ strip(slide_choice) = "1"
    /\ IF ReadPoints(lines) # << >>
       THEN /\ add_content_slide(strip(slide_title), ReadPoints(lines), "bullet")
            /\ Added(<<slide_choice, slide_title>> \o lines)
       ELSE NoCall(<<slide_choice, slide_title>> \o lines)

custom_two_column(slide_choice, slide_title, left_lines, right_lines) ==
    /\ pc.at = "menu" /\ strip(slide_choice) = "2"
    /\ IF ReadPoints(left_lines) # << >> \/ ReadPoints(right_lines) # << >>
       THEN /\ add_two_column_slide(strip(slide_title), ReadPoints(left_lines),
                                    ReadPoints(right_lines))
            /\ Added(<<slide_choice, slide_title>> \o left_lines \o right_lines)
       ELSE NoCall(<<slide_choice, slide_title>> \o left_lines \o right_lines)

custom_section(slide_choice, section_title) ==
    /\ pc.at = "menu" /\ strip(slide_choice) = "3"
    /\ IF strip(section_title) # ""
       THEN /\ add_section_slide(strip(section_title), << >>)
            /\ Added(<<slide_choice, section_title>>)
       ELSE NoCall(<<slide_choice, section_title>>)

\* faulty variant: the typed name is used as it is, empty or not
DefaultFilename_typed(now) == ""

\* the name save is given when none was typed
DefaultFilename(now) == "custom_presentation_" \o strftime(now)

\* faulty variant: the function returns after the first save, raised or not
custom_save_once(slide_choice, typed, now) ==
    LET filename == IF strip(typed) = "" THEN DefaultFilename(now) ELSE strip(typed)
    IN  /\ pc.at = "menu" /\ strip(slide_choice) = "4"
        /\ save(filename)
        /\ pc' = [pc EXCEPT !.at = "returned", !.input = <<slide_choice, typed>>]

\* the loop is left after a save that returned (the slide count and the
\* file's size are printed on the way); a save that raised is reported and
\* the menu comes again
custom_save(slide_choice, typed, now) ==
    LET filename == IF strip(typed) = "" THEN DefaultFilename(now) ELSE strip(typed)
    IN  /\ pc.at = "menu" /\ strip(slide_choice) = "4"
        /\ save(filename)
        /\ pc' = [pc EXCEPT !.at = IF result'.status = "ok" THEN "returned" ELSE "menu",
                            !.input = <<slide_choice, typed>>]

custom_invalid(slide_choice) ==
    /\ pc.at = "menu" /\ strip(slide_choice) \notin {"1", "2", "3", "4"}
    /\ NoCall(<<slide_choice>>)

----------------------------------------------------------------------------
(* SpecCustom: create_custom_presentation on typed lines of every kind *)

Typed == {"", " ", "A", " A "}

PointLines == {<<"">>, <<"A", "">>, <<" A ", "B", " ">>, <<" ", "B", "">>}

CustomInit ==
    /\ PPTGenerator_init(<< >>)
    /\ unwritable = {}
    /\ pc = At("title")
    /\ examples = << >>
    /\ balance = 0
    /\ transaction_history = << >>
    /\ books = << >>

CustomTitle ==
    /\ \E subtitle \in Typed, author \in Typed : custom_title(" T ", subtitle, author)
    /\ UNCHANGED <<unwritable, examples, lesson_vars>>

CustomContent ==
    /\ pc.accepted < MaxCustomSlides
    /\ \E c \in {"1", " 1 "}, lines \in PointLines : custom_content(c, "T", lines)
    /\ UNCHANGED <<unwritable, examples, lesson_vars>>

CustomTwoColumn ==
    /\ pc.accepted < MaxCustomSlides
    /\ \E l \in {<<"">>, <<"A", "">>}, r \in {<<" ">>, <<"B", "">>} :
          custom_two_column("2", "T", l, r)
    /\ UNCHANGED <<unwritable, examples, lesson_vars>>

CustomSection ==
    /\ pc.accepted < MaxCustomSlides
    /\ \E t \in Typed : custom_section("3", t)
    /\ UNCHANGED <<unwritable, examples, lesson_vars>>

CustomSave ==
    /\ \E typed \in {"", " ", "deck", " deck.pptx ", "/ro/x"}, now \in Clock :
          custom_save("4", typed, now)
    /\ UNCHANGED <<unwritable, examples, lesson_vars>>

CustomInvalid ==
    /\ \E c \in {"", "5", "one"} : custom_invalid(c)
    /\ UNCHANGED <<unwritable, examples, lesson_vars>>

CustomNext ==
    \/ CustomTitle
    \/ CustomContent
    \/ CustomTwoColumn
    \/ CustomSection
    \/ CustomSave
    \/ CustomInvalid

SpecCustom == CustomInit /\ [][CustomNext]_vars

----------------------------------------------------------------------------
(* The three sample scripts and run_all_examples *)

\* a list of n items; the texts stand for the script's, which are not empty
\* but at the places in blanks
Items(n, blanks) ==
    [i \in 1..n |-> IF i \in blanks THEN "" ELSE "item " \o ToString(i)]

\* the calls of create_simple_presentation on its builder, in order
create_simple_presentation ==
    <<[op |-> "add_title_slide", title |-> "My First PowerPoint",
      subtitle |-> "Created with Python",
      author |-> "Python Developer"],
      [op |-> "add_content_slide", title |-> "Why Use Python for PPT?", content |-> Items(5, {})],
      [op |-> "add_two_column_slide", title |-> "Pros and Cons",
      left_content |-> Items(5, {}), right_content |-> Items(4, {})],
      [op |-> "add_section_slide", title |-> "Thank You!", background_color |-> << >>],
      [op |-> "save", prefix |-> "simple_example.pptx", stamped |-> FALSE, suffix |-> ""],
      [op |-> "get_slide_count"] >>

\* the calls of create_sample_devops_presentation on its builder, in order
create_sample_devops_presentation ==
    <<[op |-> "set_theme_colors", primary_color |-> <<31, 73, 125>>, accent_color |-> <<79, 129, 189>>],
      [op |-> "add_title_slide", title |-> "DevOps Best Practices 2025",
      subtitle |-> "Automation, CI/CD, and Infrastructure as Code",
      author |-> "DevOps Team"],
      [op |-> "add_section_slide", title |-> "Introduction", background_color |-> <<<<31, 73, 125>>>>],
      [op |-> "add_content_slide", title |-> "What is DevOps?", content |-> Items(5, {})],
      [op |-> "add_two_column_slide", title |-> "DevOps: Benefits vs Challenges",
      left_content |-> Items(6, {}), right_content |-> Items(6, {})],
      [op |-> "add_section_slide", title |-> "CI/CD Pipeline", background_color |-> <<<<79, 129, 189>>>>],
      [op |-> "add_content_slide", title |-> "CI/CD Pipeline Stages", content |-> Items(7, {})],
      [op |-> "add_chart_slide", title |-> "Deployment Frequency Comparison", chart_type |-> "column",
      chart_data |->
         [categories |-> <<"Traditional", "Agile", "DevOps", "Elite DevOps">>,
          series |-> <<[name |-> "Deployments per Month", values |-> <<1, 4, 30, 200>>]>>]],
      [op |-> "add_section_slide", title |-> "Infrastructure as Code", background_color |-> <<<<125, 73, 31>>>>],
      [op |-> "add_content_slide", title |-> "Infrastructure as Code Tools", content |-> Items(7, {})],
      [op |-> "add_section_slide", title |-> "Monitoring & Observability", background_color |-> <<<<189, 129, 79>>>>],
      [op |-> "add_two_column_slide", title |-> "Monitoring Stack",
      left_content |-> Items(6, {}), right_content |-> Items(6, {})],
      [op |-> "add_content_slide", title |-> "DevOps Best Practices", content |-> Items(7, {})],
      [op |-> "add_content_slide", title |-> "Key Takeaways", content |-> Items(6, {})],
      [op |-> "add_title_slide", title |-> "Thank You!",
      subtitle |-> "Questions & Discussion",
      author |-> "DevOps Team"],
      [op |-> "save", prefix |-> "devops_presentation_", stamped |-> TRUE, suffix |-> ".pptx"] >>

\* the calls of create_comprehensive_demo on its builder, in order
create_comprehensive_demo ==
    <<[op |-> "set_theme_colors", primary_color |-> <<45, 85, 140>>, accent_color |-> <<70, 130, 200>>],
      [op |-> "add_title_slide", title |-> "PowerPoint Generator Demo",
      subtitle |-> "Showcasing All Features and Capabilities",
      author |-> "Python Automation Team"],
      [op |-> "add_section_slide", title |-> "Introduction", background_color |-> <<<<45, 85, 140>>>>],
      [op |-> "add_content_slide", title |-> "Key Features", content |-> Items(8, {})],
      [op |-> "add_two_column_slide", title |-> "Manual vs Automated Presentations",
      left_content |-> Items(7, {}), right_content |-> Items(7, {})],
      [op |-> "add_section_slide", title |-> "Chart Capabilities", background_color |-> <<<<70, 130, 200>>>>],
      [op |-> "add_chart_slide", title |-> "Quarterly Performance", chart_type |-> "column",
      chart_data |->
         [categories |-> <<"Q1 2024", "Q2 2024", "Q3 2024", "Q4 2024">>,
          series |-> <<[name |-> "Revenue ($M)", values |-> <<120, 145, 162, 188>>], [name |-> "Costs ($M)", values |-> <<80, 90, 95, 105>>]>>]],
      [op |-> "add_chart_slide", title |-> "Website Traffic Trends", chart_type |-> "line",
      chart_data |->
         [categories |-> <<"Jan", "Feb", "Mar", "Apr", "May", "Jun">>,
          series |-> <<[name |-> "Website Traffic", values |-> <<1200, 1350, 1100, 1800, 2100, 2400>>]>>]],
      [op |-> "add_chart_slide", title |-> "Device Usage Distribution", chart_type |-> "pie",
      chart_data |->
         [categories |-> <<"Desktop", "Mobile", "Tablet">>,
          series |-> <<[name |-> "Usage Share", values |-> <<45, 40, 15>>]>>]],
      [op |-> "add_section_slide", title |-> "Technical Implementation", background_color |-> <<<<140, 85, 45>>>>],
      [op |-> "add_content_slide", title |-> "Implementation Details", content |-> Items(8, {})],
      [op |-> "add_section_slide", title |-> "Code Examples", background_color |-> <<<<85, 140, 45>>>>],
      [op |-> "add_content_slide", title |-> "Simple Usage Example", content |-> Items(11, {2, 5, 9})],
      [op |-> "add_two_column_slide", title |-> "Advanced Features",
      left_content |-> Items(6, {}), right_content |-> Items(6, {})],
      [op |-> "add_section_slide", title |-> "Use Cases", background_color |-> <<<<200, 130, 70>>>>],
      [op |-> "add_content_slide", title |-> "DevOps & Automation Use Cases", content |-> Items(8, {})],
      [op |-> "add_content_slide", title |-> "Business & Analytics Use Cases", content |-> Items(8, {})],
      [op |-> "add_section_slide", title |-> "Performance & Benefits", background_color |-> <<<<130, 200, 70>>>>],
      [op |-> "add_chart_slide", title |-> "Efficiency Comparison", chart_type |-> "column",
      chart_data |->
         [categories |-> <<"Manual Creation", "Automated Creation">>,
          series |-> <<[name |-> "Time (minutes)", values |-> <<120, 2>>], [name |-> "Error Rate (%)", values |-> <<15, 1>>]>>]],
      [op |-> "add_content_slide", title |-> "Key Benefits", content |-> Items(8, {})],
      [op |-> "add_content_slide", title |-> "Future Enhancements", content |-> Items(8, {})],
      [op |-> "add_section_slide", title |-> "Conclusion", background_color |-> <<<<45, 85, 140>>>>],
      [op |-> "add_content_slide", title |-> "Summary", content |-> Items(7, {})],
      [op |-> "add_title_slide", title |-> "Thank You!",
      subtitle |-> "Questions & Discussion\n\nStart automating your presentations today!",
      author |-> "PowerPoint Generator Team"],
      [op |-> "save", prefix |-> "comprehensive_demo_", stamped |-> TRUE, suffix |-> ".pptx"],
      [op |-> "get_slide_count"] >>

\* faulty variant: the presentation is shared by the builders of the process
PPTGenerator_shared ==
    /\ constructed' = TRUE
    /\ template_path' = << >>
    /\ primary_color' = DefaultPrimary
    /\ accent_color' = DefaultAccent
    /\ result' = Call("__init__")
    /\ UNCHANGED <<slides, ok_appends, created, files, peer>>

\* ppt = PPTGenerator() in a process that may have written files
PPTGenerator_new ==
    /\ constructed' = TRUE
    /\ template_path' = << >>
    /\ slides' = InitialSlides(<< >>)
    /\ primary_color' = DefaultPrimary
    /\ accent_color' = DefaultAccent
    /\ ok_appends' = 0
    /\ created' = << >>
    /\ result' = Call("__init__")
    /\ UNCHANGED <<files, peer>>

\* the name a script saves under
Filename(c, now) ==
    IF c.stamped THEN c.prefix \o strftime(now) \o c.suffix ELSE c.prefix

\* one call of a script on its builder
Exec(c, now) ==
    CASE c.op = "set_theme_colors" -> set_theme_colors(c.primary_color, c.accent_color)
      [] c.op = "add_title_slide" -> add_title_slide(c.title, c.subtitle, c.author)
      [] c.op = "add_content_slide" -> add_content_slide(c.title, c.content, "bullet")
      [] c.op = "add_two_column_slide" ->
            add_two_column_slide(c.title, c.left_content, c.right_content)
      [] c.op = "add_section_slide" -> add_section_slide(c.title, c.background_color)
      [] c.op = "add_chart_slide" -> add_chart_slide(c.title, c.chart_data, c.chart_type)
      [] c.op = "save" -> save(Filename(c, now))
      [] c.op = "get_slide_count" -> get_slide_count

\* the three try blocks of run_all_examples, in the order of the source
Generators ==
    << [at |-> "simple", name |-> "Simple Example",
        script |-> create_simple_presentation, next |-> "devops"],
       [at |-> "devops", name |-> "DevOps Best Practices",
        script |-> create_sample_devops_presentation, next |-> "demo"],
       [at |-> "demo", name |-> "Comprehensive Demo",
        script |-> create_comprehensive_demo, next |-> "summary"] >>

\* faulty variant: an exception of a script ends the three try blocks
run_generator_abort(gen, now) ==
    /\ pc.at = gen.at
    /\ IF pc.step = 0
       THEN /\ PPTGenerator_new
            /\ pc' = [pc EXCEPT !.step = 1]
            /\ UNCHANGED examples
       ELSE /\ Exec(gen.script[pc.step], now)
            /\ LET saved == IF gen.script[pc.step].op = "save"
                            THEN <<result'.full_path>>
                            ELSE pc.input
               IN  IF result'.status # "ok"
                   THEN /\ pc' = At("summary")
                        /\ UNCHANGED examples
                   ELSE IF pc.step < Len(gen.script)
                        THEN /\ pc' = [pc EXCEPT !.step = @ + 1, !.input = saved]
                             /\ UNCHANGED examples
                        ELSE /\ pc' = At(gen.next)
                             /\ examples' = Append(examples,
                                               [name |-> gen.name, path |-> saved[1]])

\* one step of a try block: the script makes its builder, then its calls one
\* by one.  A call that raises ends the script, the except clause takes the
\* exception and the next try block begins; a script that made its last call
\* returns the path its save returned, which is appended to examples.
run_generator(gen, now) ==
    /\ pc.at = gen.at
    /\ IF pc.step = 0
       THEN /\ PPTGenerator_new
            /\ pc' = [pc EXCEPT !.step = 1]
            /\ UNCHANGED examples
       ELSE /\ Exec(gen.script[pc.step], now)
            /\ LET saved == IF gen.script[pc.step].op = "save"
                            THEN <<result'.full_path>>
                            ELSE pc.input
               IN  IF result'.status # "ok"
                   THEN /\ pc' = At(gen.next)
                        /\ UNCHANGED examples
                   ELSE IF pc.step < Len(gen.script)
                        THEN /\ pc' = [pc EXCEPT !.step = @ + 1, !.input = saved]
                             /\ UNCHANGED examples
                        ELSE /\ pc' = At(gen.next)
                             /\ examples' = Append(examples,
                                               [name |-> gen.name, path |-> saved[1]])

\* the summary reads the size of every file in examples, which are there,
\* and the function returns examples
run_all_examples_return ==
    /\ pc.at = "summary"
    /\ pc' = At("returned")
    /\ result' = [Call("run_all_examples") EXCEPT !.items = examples]
    /\ UNCHANGED <<builder_vars, examples>>

----------------------------------------------------------------------------
(* SpecExamples: run_all_examples in every file system that refuses some   *)
(* of the files the scripts write                                          *)

\* the files the scripts can come to write
ExampleFiles ==
    {abspath("simple_example.pptx")}
        \cup {abspath("devops_presentation_" \o strftime(now) \o ".pptx") : now \in Clock}
        \cup {abspath("comprehensive_demo_" \o strftime(now) \o ".pptx") : now \in Clock}

ExamplesInit ==
    /\ NoBuilder
    /\ result = Call("import")
    /\ unwritable \in SUBSET ExampleFiles
    /\ pc = At("simple")
    /\ examples = << >>
    /\ balance = 0
    /\ transaction_history = << >>
    /\ books = << >>

RunSimple ==
    /\ \E now \in Clock : run_generator(Generators[1], now)
    /\ UNCHANGED <<unwritable, lesson_vars>>

RunDevOps ==
    /\ \E now \in Clock : run_generator(Generators[2], now)
    /\ UNCHANGED <<unwritable, lesson_vars>>

RunDemo ==
    /\ \E now \in Clock : run_generator(Generators[3], now)
    /\ UNCHANGED <<unwritable, lesson_vars>>

RunSummary ==
    /\ run_all_examples_return
    /\ UNCHANGED <<unwritable, lesson_vars>>

ExamplesNext ==
    \/ RunSimple
    \/ RunDevOps
    \/ RunDemo
    \/ RunSummary

SpecExamples == ExamplesInit /\ [][ExamplesNext]_vars

----------------------------------------------------------------------------
(* BankAccount (classes_and_objects.py): balance and transaction_history   *)

\* what a method of the lesson's classes was given and what it returned
Reply(op, given, returned) == [op |-> op, given |-> given, returned |-> returned]

\* f"${amount}"
Dollars(amount) == "$" \o ToString(amount)

BankAccount_init(account_holder, initial_balance) ==
    /\ balance = initial_balance
    /\ transaction_history = << >>
    /\ result = Reply("BankAccount", <<account_holder, initial_balance>>, "")

deposit(amount) ==
    IF amount > 0
    THEN /\ balance' = balance + amount
         /\ transaction_history' =
               Append(transaction_history, "Deposited " \o Dollars(amount))
         /\ result' = Reply("deposit", amount,
                            "Deposited " \o Dollars(amount) \o ". New balance: "
                                \o Dollars(balance + amount))
    ELSE /\ result' = Reply("deposit", amount, "Invalid deposit amount")
         /\ UNCHANGED <<balance, transaction_history>>

\* faulty variant: the balance is not compared with the amount
withdraw_overdraft(amount) ==
    IF amount > 0
    THEN /\ balance' = balance - amount
         /\ transaction_history' =
               Append(transaction_history, "Withdrew " \o Dollars(amount))
         /\ result' = Reply("withdraw", amount,
                            "Withdrew " \o Dollars(amount) \o ". New balance: "
                                \o Dollars(balance - amount))
    ELSE /\ result' = Reply("withdraw", amount,
                            "Invalid withdrawal amount or insufficient funds")
         /\ UNCHANGED <<balance, transaction_history>>

withdraw(amount) ==
    IF amount > 0 /\ amount <= balance
    THEN /\ balance' = balance - amount
         /\ transaction_history' =
               Append(transaction_history, "Withdrew " \o Dollars(amount))
         /\ result' = Reply("withdraw", amount,
                            "Withdrew " \o Dollars(amount) \o ". New balance: "
                                \o Dollars(balance - amount))
    ELSE /\ result' = Reply("withdraw", amount,
                            "Invalid withdrawal amount or insufficient funds")
         /\ UNCHANGED <<balance, transaction_history>>

----------------------------------------------------------------------------
(* SpecBank: an account opened with a balance that is not negative, and    *)
(* deposits and withdrawals of every sign                                  *)

Amounts == -1..(MaxBalance + 1)

BankInit ==
    /\ \E initial_balance \in 0..MaxBalance : BankAccount_init("John Doe", initial_balance)
    /\ NoBuilder
    /\ unwritable = {}
    /\ pc = At("idle")
    /\ examples = << >>
    /\ books = << >>

\* an accepted call is taken while the bounds leave room for it
Deposit ==
    /\ \E amount \in Amounts :
          /\ amount > 0 => /\ balance + amount <= MaxBalance
                           /\ Len(transaction_history) < MaxTransactions
          /\ deposit(amount)
    /\ UNCHANGED <<builder_vars, script_vars, books>>

Withdraw ==
    /\ \E amount \in Amounts :
          /\ (amount > 0 /\ amount <= balance)
                => Len(transaction_history) < MaxTransactions
          /\ withdraw(amount)
    /\ UNCHANGED <<builder_vars, script_vars, books>>

BankNext ==
    \/ Deposit
    \/ Withdraw

SpecBank == BankInit /\ [][BankNext]_vars

----------------------------------------------------------------------------
(* Library (classes_and_objects.py): the books, each available or not      *)

UpperCase == "ABCDEFGHIJKLMNOPQRSTUVWXYZ"
LowerCase == "abcdefghijklmnopqrstuvwxyz"

\* the lower case of one character
LowerChar(c) ==
    IF \E k \in 1..Len(UpperCase) : SubSeq(UpperCase, k, k) = c
    THEN LET k == CHOOSE k \in 1..Len(UpperCase) : SubSeq(UpperCase, k, k) = c
         IN  SubSeq(LowerCase, k, k)
    ELSE c

\* str.lower()
RECURSIVE lower(_)
lower(s) ==
    IF s = "" THEN ""
    ELSE LowerChar(SubSeq(s, 1, 1)) \o lower(SubSeq(s, 2, Len(s)))

\* Book(title, author, isbn): a new book is available
Book(title) == [title |-> title, is_available |-> TRUE]

Library_init(name) ==
    /\ books = << >>
    /\ result = Reply("Library", name, "")

add_book(book, name) ==
    /\ books' = Append(books, book)
    /\ result' = Reply("add_book", book.title,
                       "Added '" \o book.title \o "' to " \o name)

\* the place in books of the first book with that title, whatever the case
\* of the letters; 0 is None
find_book(title) ==
    IF \E i \in 1..Len(books) : lower(books[i].title) = lower(title)
    THEN CHOOSE i \in 1..Len(books) :
            /\ lower(books[i].title) = lower(title)
            /\ \A j \in 1..(i - 1) : lower(books[j].title) # lower(title)
    ELSE 0

checkout_book(title, member) ==
    LET book == find_book(title)
    IN  IF book # 0 /\ books[book].is_available
        THEN /\ books' = [books EXCEPT ![book].is_available = FALSE]
             /\ result' = Reply("checkout_book", <<title, member>>,
                                "'" \o books[book].title \o "' checked out to " \o member)
        ELSE /\ result' = Reply("checkout_book", <<title, member>>,
                                "Book '" \o title \o "' not available")
             /\ UNCHANGED books

return_book(title) ==
    LET book == find_book(title)
    IN  IF book # 0 /\ ~books[book].is_available
        THEN /\ books' = [books EXCEPT ![book].is_available = TRUE]
             /\ result' = Reply("return_book", <<title>>,
                                "'" \o books[book].title \o "' returned successfully")
        ELSE /\ result' = Reply("return_book", <<title>>,
                                "Book '" \o title \o "' was not checked out")
             /\ UNCHANGED books

----------------------------------------------------------------------------
(* SpecLibrary: a library that is given books, some with one title, and    *)
(* checkouts and returns by title in either case of the letters            *)

Titles == {"Python Programming", "python programming", "Data Science Basics"}

LibraryInit ==
    /\ Library_init("City Library")
    /\ NoBuilder
    /\ unwritable = {}
    /\ pc = At("idle")
    /\ examples = << >>
    /\ balance = 0
    /\ transaction_history = << >>

AddBook ==
    /\ Len(books) < MaxBooks
    /\ \E t \in {"Python Programming", "Data Science Basics"} :
          add_book(Book(t), "City Library")
    /\ UNCHANGED <<builder_vars, script_vars, balance, transaction_history>>

CheckoutBook ==
    /\ \E t \in Titles, member \in {"Alice", "Bob"} : checkout_book(t, member)
    /\ UNCHANGED <<builder_vars, script_vars, balance, transaction_history>>

ReturnBook ==
    /\ \E t \in Titles : return_book(t)
    /\ UNCHANGED <<builder_vars, script_vars, balance, transaction_history>>

LibraryNext ==
    \/ AddBook
    \/ CheckoutBook
    \/ ReturnBook

SpecLibrary == LibraryInit /\ [][LibraryNext]_vars

----------------------------------------------------------------------------
(* Vocabulary of the properties *)

InRange(color) == \A i \in DOMAIN color : color[i] \in 0..255

LastSlide == slides[Len(slides)]

\* an image slide that carries no picture: its image_path did not exist
\* (in SpecSave every image path either is an image or does not exist)
NoPicture(s) == s.kind = "image" /\ s.picture = <<>>

HasMissingImage(deck) == \E i \in 1..Len(deck) : NoPicture(deck[i])

\* some series of the dataset has not as many values as there are categories
Mismatched(data) ==
    /\ "categories" \in DOMAIN data /\ "series" \in DOMAIN data
    /\ \E k \in 1..Len(data.series) :
          /\ "values" \in DOMAIN data.series[k]
          /\ Len(data.series[k].values) # Len(data.categories)

----------------------------------------------------------------------------
(* C1 *)

\* C1: on a builder that starts empty, get_slide_count() returns the number
\* of add_* calls that succeeded so far, whatever the slide kinds.
C1_CountIsSuccessfulAppends ==
    (result.op = "get_slide_count" /\ InitialSlides(template_path) = << >>)
        => result.count = ok_appends

----------------------------------------------------------------------------
(* C2 *)

\* C2: a save that directly follows a successful save, to another path that
\* can be written, succeeds too, and the two files hold the same number of
\* slides, the builder's slide count.
C2_ConsecutiveSaves ==
    [][ ( /\ result.op = "save" /\ result.status = "ok"
          /\ result'.op = "save"
          /\ result'.full_path # result.full_path
          /\ CanWrite(result'.full_path) )
        => ( /\ result'.status = "ok"
             /\ Len(files'[result'.full_path]) = Len(files'[result.full_path])
             /\ Len(files'[result'.full_path]) = Len(slides') ) ]_vars

C2_Witness ==
    /\ result.op = "save" /\ result.status = "ok"
    /\ Len(slides) > 0
    /\ \E p \in DOMAIN files : p # result.full_path /\ files[p] = slides

----------------------------------------------------------------------------
(* C3 *)

\* C3: a save that fails changes neither the slides nor the theme nor any
\* file, has tried to write once, and leaves save enabled.
C3_FailedSaveChangesNothing ==
    /\ [][ (result'.op = "save" /\ result'.status # "ok")
           => ( /\ slides' = slides
                /\ primary_color' = primary_color
                /\ accent_color' = accent_color
                /\ files' = files
                /\ result'.writes = 1 ) ]_vars
    /\ []((result.op = "save" /\ result.status # "ok") => ENABLED SaveAs)

C3_Witness ==
    /\ result.op = "save" /\ result.status = "OSError"
    /\ Len(slides) > 0

----------------------------------------------------------------------------
(* C4 *)

\* C4 as claimed: add_image_slide with a path that does not exist returns
\* normally, and every later save fails with ImageNotFound.
C4_MissingImageFailsSave ==
    /\ (result.op = "add_image_slide" /\ ~exists(result.path))
          => result.status = "ok"
    /\ (result.op = "save" /\ HasMissingImage(slides))
          => result.status = "ImageNotFound"

\* C4 amended: add_image_slide with a path that does not exist returns
\* normally and the slide count grows by one; the slide carries no picture
\* and no caption, and a later save does not fail because of it: it
\* succeeds whenever the target can be written, and the file holds the slide.
C4_MissingImageSkipped ==
    /\ [][ (result'.op = "add_image_slide" /\ ~exists(result'.path)
            /\ result' # result)
           => ( /\ result'.status = "ok"
                /\ Len(slides') = Len(slides) + 1
                /\ slides'[Len(slides')].picture = << >>
                /\ slides'[Len(slides')].caption = << >> ) ]_vars
    /\ []( (result.op = "save" /\ HasMissingImage(slides))
           => ( /\ result.status = "ok" <=> CanWrite(result.full_path)
                /\ result.status = "ok" => files[result.full_path] = slides ) )

C4_Witness ==
    /\ result.op = "save" /\ result.status = "ok"
    /\ HasMissingImage(files[result.full_path])

----------------------------------------------------------------------------
(* C5 *)

\* C5: add_chart_slide with a series whose values are not as many as the
\* categories fails with MalformedDataset.
C5_MismatchRejected ==
    (result.op = "add_chart_slide" /\ Mismatched(result.data))
        => result.status = "MalformedDataset"

----------------------------------------------------------------------------
(* C6 *)

\* C6: set_theme_colors accepts the two colours, and stores them, when every
\* channel of both is in 0..255, and fails otherwise, whichever of the two
\* colours is the bad one.
C6_ColorValidation ==
    result.op = "set_theme_colors" =>
        LET primary == result.colors[1]
            accent == result.colors[2]
        IN  IF InRange(primary) /\ InRange(accent)
            THEN /\ result.status = "ok"
                 /\ primary_color = primary
                 /\ accent_color = accent
            ELSE result.status = "ValueError"

C6_Witness ==
    /\ result.op = "set_theme_colors"
    /\ result.colors = <<White, TooBig>>
    /\ result.status = "ValueError"

----------------------------------------------------------------------------
(* C7 *)

\* C7 as claimed: construction with a template path that does not exist
\* fails with TemplateNotFound.
C7_MissingTemplateFails ==
    (result.op = "__init__" /\ template_path # << >> /\ ~exists(template_path[1]))
        => result.status = "TemplateNotFound"

\* C7 amended: construction with a template path that does not exist does
\* not fail: the builder starts from a blank presentation.  Construction
\* fails only when the path exists and is not a presentation.
C7_MissingTemplateFallsBack ==
    result.op = "__init__" =>
        /\ (template_path # << >> /\ ~exists(template_path[1]))
              => (constructed /\ result.status = "ok" /\ slides = << >>)
        /\ ~constructed
              => (template_path # << >> /\ exists(template_path[1])
                  /\ template_path[1] \notin PresentationFiles)

C7_Witness ==
    /\ result.op = "__init__"
    /\ template_path = <<"missing.pptx">>
    /\ constructed

----------------------------------------------------------------------------
(* C8 *)

\* C8 as claimed: right after construction, with or without a template, the
\* builder has no slide and the default theme.
C8_FreshBuilderEmpty ==
    (result.op = "__init__" /\ constructed) =>
        /\ Len(slides) = 0
        /\ primary_color = <<31, 73, 125>>
        /\ accent_color = <<79, 129, 189>>

\* C8 amended: right after construction the builder has the default theme;
\* it has no slide when no template is given or the template path does not
\* exist, and the slides of the template file when that file is opened.
C8_FreshBuilder ==
    (result.op = "__init__" /\ constructed) =>
        /\ primary_color = <<31, 73, 125>>
        /\ accent_color = <<79, 129, 189>>
        /\ IF template_path # << >> /\ exists(template_path[1])
           THEN slides = TemplateSlides(template_path[1])
           ELSE Len(slides) = 0

C8_Witness ==
    /\ result.op = "__init__" /\ constructed
    /\ template_path = <<"deck.pptx">>
    /\ Len(slides) = 2

----------------------------------------------------------------------------
(* C9 *)

\* the text the claim gives item k
Rendered(k, item, layout_type) ==
    IF layout_type = "numbered" THEN ToString(k) \o ". " \o item ELSE item

\* C9 as claimed: the body of a "bullet" or "numbered" content slide has one
\* line per item, in order: "k. item" when numbered, the item itself
\* otherwise.
C9_OneLinePerItem ==
    (result.op = "add_content_slide" /\ result.layout_type \in {"bullet", "numbered"})
        => /\ Len(LastSlide.body) = Len(result.items)
           /\ \A k \in 1..Len(result.items) :
                 LastSlide.body[k] = Rendered(k, result.items[k], result.layout_type)

\* C9 amended: the same when there is at least one item; with no item the
\* body keeps a single empty paragraph.
C9_OneLinePerItemUnlessEmpty ==
    (result.op = "add_content_slide" /\ result.layout_type \in {"bullet", "numbered"})
        => IF result.items = << >>
           THEN LastSlide.body = <<"">>
           ELSE /\ Len(LastSlide.body) = Len(result.items)
                /\ \A k \in 1..Len(result.items) :
                      LastSlide.body[k] =
                          Rendered(k, result.items[k], result.layout_type)

C9_Witness ==
    /\ result.op = "add_content_slide"
    /\ result.layout_type = "numbered"
    /\ result.items = <<"A", "B">>
    /\ LastSlide.body = <<"1. A", "2. B">>

----------------------------------------------------------------------------
(* C10 *)

\* the name the claim has save write
Canonical(filename) ==
    IF EndsWith(filename, ".pptx") THEN filename ELSE filename \o ".pptx"

\* C10: a save that succeeds writes one file, the deck, and returns its
\* absolute path; the file's name is the given one when that ends with
\* ".pptx" and the given one followed by ".pptx" otherwise, so that a name
\* that went through this once is left as it is.
C10_SaveWritesCanonicalName ==
    [][ (result'.op = "save" /\ result'.status = "ok")
        => LET written == result'.full_path
           IN  /\ written = abspath(Canonical(result'.path))
               /\ StartsWith(written, "/")
               /\ DOMAIN files' = DOMAIN files \cup {written}
               /\ \A p \in DOMAIN files \ {written} : files'[p] = files[p]
               /\ files'[written] = slides
               /\ Normalize(Normalize(result'.path)) = Normalize(result'.path)
               /\ Canonical(Canonical(result'.path)) = Canonical(result'.path) ]_vars

C10_Witness ==
    /\ result.op = "save" /\ result.status = "ok"
    /\ result.path = "out.pptx"
    /\ DOMAIN files = {"/work/out.pptx"}

----------------------------------------------------------------------------
(* C11 *)

AddOps == {"add_title_slide", "add_content_slide", "add_two_column_slide",
           "add_image_slide", "add_chart_slide", "add_section_slide"}

\* C11 as stated: no add_* call and no set_theme_colors call reads or probes
\* the file system; add_image_slide does not look for the image when the
\* slide is appended.
C11_OnlySaveTouchesFiles ==
    result.op \in AddOps \cup {"set_theme_colors"}
        => result.probed = {} /\ result.read = {}

\* C11: save is the only operation that writes a file, and it looks at no
\* other file.  add_image_slide asks at the append call whether the image
\* exists and reads the image then when it does; the other add_* calls,
\* set_theme_colors and get_slide_count touch no file.  The constructor asks
\* whether a given template exists and reads it when it does.
C11_ImageProbedAtAppend ==
    /\ result.op = "save" => result.probed = {} /\ result.read = {}
    /\ result.op # "save" => result.writes = 0
    /\ result.op = "add_image_slide"
         => /\ result.probed = {result.path}
            /\ result.read = IF exists(result.path) THEN {result.path} ELSE {}
    /\ result.op \in (AddOps \ {"add_image_slide"})
                        \cup {"set_theme_colors", "get_slide_count"}
         => result.probed = {} /\ result.read = {}
    /\ result.op = "__init__"
         => /\ result.probed = {template_path[i] : i \in DOMAIN template_path}
            /\ result.read = {f \in result.probed : exists(f)}

C11_Witness ==
    /\ result.op = "add_image_slide"
    /\ result.path = "missing.png"
    /\ result.probed = {"missing.png"}
    /\ NoPicture(LastSlide)

----------------------------------------------------------------------------
(* C12 *)

\* C12: for a builder that started without slides, the file written by save
\* holds the slides of the successful add_* calls, in the order of the calls:
\* slide i of the file is the slide made by the i-th successful call.
C12_FileIsSuccessfulAddsInOrder ==
    (/\ result.op = "save" /\ result.status = "ok"
     /\ InitialSlides(template_path) = << >>)
        => files[result.full_path] = created

----------------------------------------------------------------------------
(* C13 *)

\* C13: no operation changes a slide that is in the deck: after every step
\* each slide is at the position it had and is equal to what it was, in
\* kind, texts, data and colours.
C13_AppendedSlidesKept ==
    [][ /\ Len(slides') >= Len(slides)
        /\ \A i \in 1..Len(slides) : slides'[i] = slides[i] ]_vars

C13_Witness ==
    /\ Len(slides) >= 2
    /\ slides[1].kind = "title" /\ slides[1].title_color = DefaultPrimary
    /\ slides[2].kind = "chart"
    /\ primary_color = Red
    /\ result.op = "save" /\ result.status = "ok"

----------------------------------------------------------------------------
(* C14 *)

\* the add_* calls that colour the title with the theme
ThemedAdds == AddOps \ {"add_section_slide"}

ThemedKinds == {"title", "content", "two_column", "image", "chart"}

\* C14 as stated: in the file written by save every slide's title has the
\* primary colour in effect when save is called.
C14_ThemeAtSaveTime ==
    (result.op = "save" /\ result.status = "ok")
        => \A i \in DOMAIN files[result.full_path] :
              files[result.full_path][i].kind \in ThemedKinds
                 => files[result.full_path][i].title_color = primary_color

\* C14: the title is coloured by the add_* call, with the primary colour in
\* effect at that call; no later operation, set_theme_colors included,
\* changes the title colour of a slide in the deck, and save writes the
\* slides with the colours they have.
C14_ThemeAtAppendTime ==
    /\ [][ (result'.op \in ThemedAdds /\ Len(slides') = Len(slides) + 1)
             => slides'[Len(slides')].title_color = primary_color ]_vars
    /\ [][ \A i \in 1..Len(slides) :
              /\ i <= Len(slides')
              /\ slides'[i].title_color = slides[i].title_color ]_vars
    /\ [] ((result.op = "save" /\ result.status = "ok")
              => files[result.full_path] = slides)

C14_Witness ==
    /\ result.op = "save" /\ result.status = "ok"
    /\ Len(files[result.full_path]) >= 1
    /\ files[result.full_path][Len(slides)].kind = "content"
    /\ files[result.full_path][Len(slides)].title_color = DefaultPrimary
    /\ primary_color = Red

----------------------------------------------------------------------------
(* C15 *)

\* C15 as stated: the slide of every add_* call, the section slide included,
\* has its title in the primary colour.
C15_EveryTitlePrimary ==
    result.op \in AddOps => LastSlide.title_color = primary_color

\* C15: the title, content, two-column, image and chart slides have their
\* title in the primary colour in effect at the add_* call; the title of a
\* section slide is white whatever the theme is.
C15_TitlePrimaryExceptSection ==
    /\ result.op \in ThemedAdds => LastSlide.title_color = primary_color
    /\ result.op = "add_section_slide" => LastSlide.title_color = White

C15_Witness ==
    /\ result.op = "add_section_slide" /\ result.status = "ok"
    /\ LastSlide.kind = "section"
    /\ LastSlide.title_color = White
    /\ primary_color = Red

----------------------------------------------------------------------------
(* C16 *)

\* C16: after add_title_slide(title, subtitle, author) the subtitle text is
\* subtitle, two line breaks, "Presented by: " and author when author is not
\* empty, an empty subtitle included, and subtitle alone when author is
\* empty; when both are empty the subtitle is not set, neither its text nor
\* its colour, and otherwise it has the accent colour.
C16_AttributionLine ==
    result.op = "add_title_slide"
        => LET subtitle == result.items[1]
               author == result.items[2]
           IN  /\ LastSlide.sub = IF author # ""
                                  THEN subtitle \o "\n\nPresented by: " \o author
                                  ELSE subtitle
               /\ (subtitle = "" /\ author = "")
                     => LastSlide.sub = "" /\ LastSlide.sub_color = << >>
               /\ (subtitle # "" \/ author # "")
                     => LastSlide.sub_color = accent_color

C16_Witness ==
    /\ result.op = "add_title_slide"
    /\ result.items = <<"", "A">>
    /\ LastSlide.sub = "\n\nPresented by: A"

----------------------------------------------------------------------------
(* C17 *)

\* C17: add_section_slide accepts a background colour exactly when
\* set_theme_colors accepts it as a colour: with a channel outside 0..255 the
\* call raises at the append call, with every channel inside it returns and
\* the slide has that background, and without a colour it returns and the
\* slide has no background.
C17_BackgroundValidated ==
    result.op = "add_section_slide"
        => IF result.colors = << >>
           THEN result.status = "ok" /\ LastSlide.background = << >>
           ELSE /\ RGBColorOK(result.colors[1]) <=> InRange(result.colors[1])
                /\ IF InRange(result.colors[1])
                   THEN /\ result.status = "ok"
                        /\ LastSlide.background = result.colors
                   ELSE /\ result.status = "ValueError"
                        /\ LastSlide.background # result.colors

C17_Witness ==
    /\ result.op = "add_section_slide"
    /\ result.colors = <<TooBig>>
    /\ result.status = "ValueError"

----------------------------------------------------------------------------
(* C18 *)

\* C18: once files have been written the builder still takes add_* and
\* set_theme_colors calls, and every save that succeeds writes the whole
\* deck as it is then, the slides appended after an earlier save included.
C18_SaveKeepsBuilderOpen ==
    /\ [] ((result.op = "save" /\ result.status = "ok")
              => files[result.full_path] = slides)
    /\ [] (DOMAIN files # {}
              => /\ ENABLED SaveTheme
                 /\ ENABLED SaveAs
                 /\ AddedSlides < MaxSaveSlides
                      => ENABLED SaveContent /\ ENABLED SaveImage)

C18_Witness ==
    /\ result.op = "save" /\ result.status = "ok"
    /\ \E p \in DOMAIN files :
          /\ p # result.full_path
          /\ Len(files[p]) < Len(files[result.full_path])
    /\ files[result.full_path] = slides

----------------------------------------------------------------------------
(* C19 *)

\* C19: an operation on one PPTGenerator object changes nothing of another
\* object of the process: its slides, their number, its colours and the
\* record of its successful appends stay as they were.
C19_InstancesIndependent ==
    [][ result'.op # "switch" => peer' = peer ]_vars

C19_Witness ==
    /\ result.op = "save" /\ result.status = "ok"
    /\ Len(slides) > 0
    /\ peer.slides # << >>
    /\ peer.primary_color # primary_color

----------------------------------------------------------------------------
(* C20 *)

\* C20: get_slide_count returns the number of slides in the deck and changes
\* neither the deck nor the colours nor any file; no operation but an add_*
\* call changes that number, so that two calls with no add_* call between
\* them return the same value.
C20_CountIsPureQuery ==
    /\ [][ result'.op = "get_slide_count"
             => /\ result'.count = Len(slides)
                /\ slides' = slides
                /\ primary_color' = primary_color
                /\ accent_color' = accent_color
                /\ files' = files ]_vars
    /\ [][ result'.op \notin AddOps => Len(slides') = Len(slides) ]_vars
    /\ [][ (result.op = "get_slide_count" /\ result'.op = "get_slide_count")
             => result'.count = result.count ]_vars

C20_Witness ==
    /\ result.op = "get_slide_count"
    /\ result.count = Len(slides)
    /\ AddedSlides >= 1
    /\ DOMAIN files # {}

----------------------------------------------------------------------------
(* C21 *)

\* C21: add_image_slide with a path that does not exist returns normally and
\* appends a slide that has its title and nothing else: no picture and no
\* caption, a given non-empty caption included.
C21_MissingImageTitleOnly ==
    [][ (result'.op = "add_image_slide" /\ ~exists(result'.path))
          => /\ result'.status = "ok"
             /\ Len(slides') = Len(slides) + 1
             /\ slides'[Len(slides')] =
                   [NewSlide("image", 6) EXCEPT !.title = "T",
                                                !.title_color = primary_color]
             /\ slides'[Len(slides')].picture = << >>
             /\ slides'[Len(slides')].caption = << >> ]_vars

C21_Witness ==
    /\ result.op = "add_image_slide" /\ result.status = "ok"
    /\ result.path = "missing.png"
    /\ result.items = <<"cap">>
    /\ LastSlide.title = "T"
    /\ LastSlide.caption = << >>

----------------------------------------------------------------------------
(* C22 *)

\* C22: when nothing, or only blanks, is typed at the filename prompt of
\* create_custom_presentation, save is given "custom_presentation_" followed
\* by the date and time as YYYYmmdd_HHMMSS, never the empty name, and the
\* file it writes is that name with ".pptx" in the working directory.
C22_TimestampDefaultName ==
    [][ (result'.op = "save" /\ pc.at = "menu" /\ strip(pc'.input[2]) = "")
          => /\ \E now \in Clock :
                  result'.path = "custom_presentation_" \o strftime(now)
             /\ result'.path \in {"custom_presentation_20240105_090307",
                                  "custom_presentation_20251231_235959"}
             /\ result'.full_path = CWD \o "/" \o result'.path \o ".pptx"
             /\ result'.status = "ok" => result'.full_path \in DOMAIN files'
             /\ abspath(".pptx") \notin DOMAIN files' ]_vars

C22_Witness ==
    /\ pc.at = "returned"
    /\ pc.input = <<"4", " ">>
    /\ result.op = "save" /\ result.status = "ok"
    /\ result.full_path = "/work/custom_presentation_20240105_090307.pptx"
    /\ result.full_path \in DOMAIN files

----------------------------------------------------------------------------
(* C23 *)

\* C23: an add_* call that raises leaves the deck as it was: the slide count
\* is the one before the call and no slide of the call is in the deck that a
\* later save writes.
C23_FailedAddChangesNothing ==
    [][ (result'.op \in AddOps /\ result'.status # "ok")
          => slides' = slides ]_vars

----------------------------------------------------------------------------
(* C24 *)

\* C24: a set_theme_colors call that raises leaves both colours as they
\* were, also when the primary colour it was given is valid and the accent
\* colour is not.
C24_ThemeReplacedAtomically ==
    [][ (result'.op = "set_theme_colors" /\ result'.status # "ok")
          => /\ primary_color' = primary_color
             /\ accent_color' = accent_color ]_vars

----------------------------------------------------------------------------
(* C25 *)

\* C25: add_chart_slide fails for no chart_type: a call that raises was
\* given a series without "name" or "values", whatever the chart_type.  A
\* call that returns has made a clustered-column chart for "column" and for
\* every chart_type that is none of the three, a line chart for "line" and a
\* pie chart for "pie", with the empty list for a missing "categories" or
\* "series" key.
C25_ChartTypeNeverFails ==
    result.op = "add_chart_slide"
        => /\ result.status # "ok" => ~ChartDataOK(result.data)
           /\ result.status = "ok"
                => LastSlide.chart =
                     << [type |-> CASE result.chart_type = "line" -> "LINE"
                                    [] result.chart_type = "pie" -> "PIE"
                                    [] OTHER -> "COLUMN_CLUSTERED",
                         categories |-> IF "categories" \in DOMAIN result.data
                                        THEN result.data.categories ELSE << >>,
                         series |-> IF "series" \in DOMAIN result.data
                                    THEN result.data.series ELSE << >>] >>

----------------------------------------------------------------------------
(* C26 *)

\* the place that follows a place of run_all_examples
NextPlace(place) ==
    CASE place = "simple" -> "devops"
      [] place = "devops" -> "demo"
      [] place = "demo" -> "summary"
      [] place = "summary" -> "returned"
      [] OTHER -> place

\* the files a script may have written, by the name it saves under
FilesOf(script) ==
    LET c == script[CHOOSE k \in DOMAIN script : script[k].op = "save"]
    IN  {abspath(Filename(c, now)) : now \in Clock}

\* the entry of examples for a script whose file is there, and none otherwise
EntryOf(name, script) ==
    IF FilesOf(script) \cap DOMAIN files = {}
    THEN << >>
    ELSE << [name |-> name,
             path |-> CHOOSE p \in FilesOf(script) : p \in DOMAIN files] >>

\* C26: run_all_examples goes through the simple, the DevOps and the
\* comprehensive script in this order; a call of a script that raises ends
\* that script only, the next one is begun and examples is as it was; the
\* list that is returned holds one entry for every script that wrote its
\* file, in that order and with the path of the file, and a script without
\* an entry is one whose file the file system refused.
C26_EveryExampleAttempted ==
    /\ [][ pc'.at \in {pc.at, NextPlace(pc.at)} ]_vars
    /\ [][ (pc.at \in {"simple", "devops", "demo"} /\ result'.status # "ok")
             => /\ pc'.at = NextPlace(pc.at) /\ pc'.step = 0
                /\ examples' = examples ]_vars
    /\ [] (pc.at = "returned"
             => /\ result.items = examples
                /\ examples = EntryOf("Simple Example", create_simple_presentation)
                           \o EntryOf("DevOps Best Practices",
                                      create_sample_devops_presentation)
                           \o EntryOf("Comprehensive Demo", create_comprehensive_demo)
                /\ \A s \in {create_simple_presentation,
                             create_sample_devops_presentation,
                             create_comprehensive_demo} :
                      \/ FilesOf(s) \cap DOMAIN files # {}
                      \/ FilesOf(s) \cap unwritable # {})

C26_Witness ==
    /\ pc.at = "returned"
    /\ Len(examples) = 2
    /\ examples[1] = [name |-> "Simple Example", path |-> "/work/simple_example.pptx"]
    /\ examples[2].name = "Comprehensive Demo"
    /\ examples[2].path \in DOMAIN files

----------------------------------------------------------------------------
(* C27 *)

\* the add_* calls a script makes
AddCalls(script) == Cardinality({k \in DOMAIN script : script[k].op \in AddOps})

\* C27: the deck create_simple_presentation saves has 4 slides and the deck
\* create_comprehensive_demo saves has 23, which is the number of add_*
\* calls of the script and what get_slide_count returns after the save.
C27_AdvertisedSlideCounts ==
    /\ AddCalls(create_simple_presentation) = 4
    /\ AddCalls(create_comprehensive_demo) = 23
    /\ [][ (result'.op = "save" /\ result'.status = "ok" /\ pc.at = "simple")
             => Len(slides) = 4 /\ Len(files'[result'.full_path]) = 4 ]_vars
    /\ [][ (result'.op = "save" /\ result'.status = "ok" /\ pc.at = "demo")
             => Len(slides) = 23 /\ Len(files'[result'.full_path]) = 23 ]_vars
    /\ [][ (result'.op = "get_slide_count" /\ pc.at = "simple")
             => result'.count = 4 ]_vars
    /\ [][ (result'.op = "get_slide_count" /\ pc.at = "demo")
             => result'.count = 23 ]_vars

C27_Witness ==
    /\ pc.at = "summary"
    /\ result.op = "get_slide_count" /\ result.count = 23
    /\ Len(examples) = 3
    /\ Len(files[examples[1].path]) = 4
    /\ Len(files[examples[3].path]) = 23

----------------------------------------------------------------------------
(* C28 *)

\* whether the lines typed at a turn of the menu make an addition: a content
\* slide needs a point, a two-column slide a point in one of its columns
\* (the right column's lines come after the blank that ends the left one),
\* a section slide a title
Accepts(typed) ==
    LET choice == strip(typed[1])
        rest == SubSeq(typed, 3, Len(typed))
        left == ReadPoints(rest)
        right == ReadPoints(SubSeq(rest, Len(left) + 2, Len(rest)))
    IN  CASE choice = "1" -> left # << >>
          [] choice = "2" -> left # << >> \/ right # << >>
          [] choice = "3" -> strip(typed[2]) # ""
          [] OTHER -> FALSE

\* C28: create_custom_presentation has returned only after a save that
\* returned, and the file of that save is the deck: the title slide and one
\* slide for every accepted addition.  A turn of the menu with an invalid
\* choice, with nothing to add, or with a save that raised leaves the deck as
\* it was and the menu comes again.
C28_ReturnsAfterSuccessfulSave ==
    /\ [] (pc.at = "returned"
             => /\ result.op = "save" /\ result.status = "ok"
                /\ files[result.full_path] = slides
                /\ Len(files[result.full_path]) = 1 + pc.accepted)
    /\ [] (pc.at \in {"menu", "returned"} => Len(slides) = 1 + pc.accepted)
    /\ [][ pc.at = "menu"
             => /\ pc'.accepted = pc.accepted + (IF Accepts(pc'.input) THEN 1 ELSE 0)
                /\ Len(slides') = Len(slides) + (IF Accepts(pc'.input) THEN 1 ELSE 0)
                /\ \A i \in 1..Len(slides) : slides'[i] = slides[i]
                /\ pc'.at = "returned"
                     <=> /\ strip(pc'.input[1]) = "4"
                         /\ result'.op = "save" /\ result'.status = "ok" ]_vars

C28_Witness ==
    /\ pc.at = "returned"
    /\ pc.accepted = 1
    /\ Len(files[result.full_path]) = 2
    /\ files[result.full_path][1].kind = "title"
    /\ files[result.full_path][2].kind = "two_column"
    /\ files[result.full_path][2].right = <<"B">>
    /\ files[result.full_path][2].body # <<"A">>

----------------------------------------------------------------------------
(* C29 *)

\* C29: the balance of an account opened with a balance that is not negative
\* is never negative.  A deposit of an amount that is not positive and a
\* withdrawal of an amount that is not positive or is more than the balance
\* change neither balance nor transaction_history; every other call changes
\* the balance by its amount and appends its one entry to
\* transaction_history.
C29_BalanceNeverNegative ==
    /\ [] (balance >= 0)
    /\ [][ result'.op = "deposit"
             => IF result'.given <= 0
                THEN /\ balance' = balance
                     /\ transaction_history' = transaction_history
                ELSE /\ balance' = balance + result'.given
                     /\ Len(transaction_history') = Len(transaction_history) + 1
                     /\ SubSeq(transaction_history', 1, Len(transaction_history))
                           = transaction_history
                     /\ transaction_history'[Len(transaction_history')]
                           = "Deposited $" \o ToString(result'.given) ]_vars
    /\ [][ result'.op = "withdraw"
             => IF result'.given <= 0 \/ result'.given > balance
                THEN /\ balance' = balance
                     /\ transaction_history' = transaction_history
                ELSE /\ balance' = balance - result'.given
                     /\ Len(transaction_history') = Len(transaction_history) + 1
                     /\ SubSeq(transaction_history', 1, Len(transaction_history))
                           = transaction_history
                     /\ transaction_history'[Len(transaction_history')]
                           = "Withdrew $" \o ToString(result'.given) ]_vars

C29_Witness ==
    /\ result.op = "withdraw"
    /\ result.given > balance
    /\ result.returned = "Invalid withdrawal amount or insufficient funds"
    /\ result.given = 3
    /\ transaction_history = <<"Deposited $2", "Withdrew $1">>
    /\ balance = 2

----------------------------------------------------------------------------
(* C30 *)

\* C30: checkout_book(title, member) checks a book out exactly when the
\* library holds an available book whose title is the given one but for the
\* case of the letters, several books of that title included; a book that is
\* checked out stays so until return_book, and return_book of a title of
\* which no book is checked out changes nothing.
C30_CheckoutWhenAvailable ==
    /\ [][ result'.op = "checkout_book"
             => LET title == result'.given[1]
                    held == \E i \in 1..Len(books) :
                               /\ books[i].is_available
                               /\ lower(books[i].title) = lower(title)
                IN  /\ (books' # books) <=> held
                    /\ \A i \in 1..Len(books) :
                          ~books[i].is_available => books'[i] = books[i] ]_vars
    /\ [][ result'.op = "return_book"
             => LET title == result'.given[1]
                    out == \E i \in 1..Len(books) :
                              /\ ~books[i].is_available
                              /\ lower(books[i].title) = lower(title)
                IN  ~out => books' = books ]_vars

====
